---- MODULE Spec2Model ----
(***************************************************************************)
(* Observers of bevy_ecs: ObserverBuilder and EventBuilder (builder.rs),   *)
(* the ObserverComponent record, its lifecycle hooks and its default       *)
(* runner (runner.rs), together with the command queue, the store and the  *)
(* dispatch command they talk to.                                          *)
(***************************************************************************)
EXTENDS Integers, Sequences, FiniteSets, TLC

\* ---------------------------------------------------------------- bounds
MaxEntities == 3   \* entity identifiers 1..MaxEntities (entity 1 exists at start)
MaxEmits    == 2   \* emissions (EventBuilder::emit calls that enqueue) per run
MaxTargets  == 2   \* length of an EventBuilder's target list
MaxDescLen  == 1   \* length of each list of an ObserverDescriptor

\* ------------------------------------------------------- program constants
PLACEHOLDER == 0   \* Entity::PLACEHOLDER
NO_EVENT    == 0   \* ComponentId of the NoEvent type
NoId        == -1  \* Option<ComponentId>::None, and a failed registry lookup
NoData      == 0   \* Option<E>::None of EventBuilder.data

Entities == 1..MaxEntities
Emits    == 1..MaxEmits

\* The type registry: NoEvent, the event types Damage and Heal, the component
\* type Health. "Ghost" is a type that was never registered.
get_id(t) ==
  CASE t = "NoEvent" -> NO_EVENT
    [] t = "Damage"  -> 1
    [] t = "Heal"    -> 2
    [] t = "Health"  -> 3
    [] OTHER         -> NoId

Range(s) == {s[i] : i \in 1..Len(s)}

\* ------------------------------------------------------------ descriptor
\* ObserverDescriptor::default()
EmptyDescriptor == [events |-> <<>>, components |-> <<>>, sources |-> <<>>]

\* ObserverComponent (runner.rs:11-16). `present` tells whether the entity
\* carries the record at all; `prog` and `excl` describe the boxed system
\* (what its body queues, whether it is exclusive).
NoRecord ==
  [present |-> FALSE, descriptor |-> EmptyDescriptor, runner |-> "none",
   system |-> FALSE, last_event_id |-> 0, prog |-> "none"]

\* An entry of the external index: the observer's runner and match criteria.
NoEntry == [present |-> FALSE, descriptor |-> EmptyDescriptor, runner |-> "none"]

\* ObserverBuilder and EventBuilder values that do not exist (yet).
NoObserverBuilder ==
  [present |-> FALSE, entity |-> PLACEHOLDER, descriptor |-> EmptyDescriptor,
   finalized |-> FALSE]
NoEventBuilder ==
  [present |-> FALSE, event |-> NoId, ty |-> "NoEvent", targets |-> <<>>,
   components |-> <<>>, data |-> NoData, emits |-> 0]

VARIABLES
  alive,        \* entities of the store
  nextEntity,   \* next identifier spawn_empty hands out
  records,      \* entity -> its ObserverComponent
  index,        \* the external index register_observer / unregister_observer keep
  counter,      \* World::last_event_id, the global event counter
  queue,        \* the world's command queue
  flushing,     \* the queue is being applied
  stack,        \* dispatches in progress, innermost last
  ob,           \* the ObserverBuilder the caller holds
  eb,           \* the EventBuilder the caller holds
  halted,       \* "no", or how the program stopped: "panic" or "ub"
  faults,       \* the places that failed
  emitted,      \* emissions enqueued so far
  removed,      \* entities whose observer record has been removed
  finals,       \* host entity -> how its builder was finalized
  hist          \* history of each emission: what the runner did for whom

vars == <<alive, nextEntity, records, index, counter, queue, flushing, stack,
          ob, eb, halted, faults, emitted, removed, finals, hist>>

store  == <<alive, nextEntity, records, index, counter>>
ghosts == <<emitted, removed, finals, hist>>

\* What is remembered of one emission.
\*   built      the builder `emit` was called on
\*   gone       the entities whose record had been removed when it was enqueued
\*   known      the hosts whose builder had been finalized when it was enqueued
\*   counter    the global event counter of its dispatch
\*   index      the index when its dispatch started
\*   triggered  the observers its dispatch drew up a trigger for
\*   matched    those with the default runner, a record and a real source
\*   catchAll   the catch-all observers with a typed callback at that time
\*   solo       no other dispatch ran inside its own, nor its own inside another
\*   invoked    the observers whose runner was called
\*   calls      per observer, the counter at each call of the default runner
\*              that got as far as the dedup check
\*   runs       per observer, the counter at each run of its callback
\*   skips      per observer, the calls the dedup check ended
\*   stale      the observers whose runner was called without a record
\*   dropped    the observers whose record a command of one of its callbacks
\*              removed
NoHistory ==
  [enqueued |-> FALSE, built |-> NoEventBuilder, gone |-> {}, known |-> {},
   started |-> FALSE,
   counter |-> 0, index |-> [o \in Entities |-> NoEntry], triggered |-> {}, matched |-> {},
   catchAll |-> {}, solo |-> FALSE, done |-> FALSE, invoked |-> {},
   calls |-> [o \in Entities |-> <<>>], runs |-> [o \in Entities |-> <<>>],
   skips |-> [o \in Entities |-> 0], stale |-> {}, dropped |-> {}]
NoFinal ==
  [kind |-> "none", descriptor |-> EmptyDescriptor, excl |-> FALSE, prog |-> "none"]

\* What is remembered of a builder call that failed: the descriptor the
\* builder held when the call was made.
Failed(descriptor) ==
  [kind |-> "failed", descriptor |-> descriptor, excl |-> FALSE, prog |-> "none"]

\* What is remembered of the entity a failed `new` had obtained.
FailedNew ==
  [kind |-> "new_failed", descriptor |-> EmptyDescriptor, excl |-> FALSE,
   prog |-> "none"]

Init ==
  /\ alive = {1}
  /\ nextEntity = 2
  /\ records = [e \in Entities |-> NoRecord]
  /\ index = [e \in Entities |-> NoEntry]
  /\ counter = 0
  /\ queue = <<>>
  /\ flushing = FALSE
  /\ stack = <<>>
  /\ ob = NoObserverBuilder
  /\ eb = NoEventBuilder
  /\ halted = "no"
  /\ faults = {}
  /\ emitted = 0
  /\ removed = {}
  /\ finals = [e \in Entities |-> NoFinal]
  /\ hist = [m \in Emits |-> NoHistory]

\* The caller's code runs between two applications of the command queue.
Idle == halted = "no" /\ ~flushing /\ stack = <<>>

\* The caller finishes one builder before it starts on another.
ObserverBusy == ob.present /\ ~ob.finalized
EventBusy    == eb.present /\ eb.emits = 0

\* A fatal failure (panic!, assert!, unwrap on None) at `site`.
Panic(site) == halted' = "panic" /\ faults' = faults \cup {site}

\* ------------------------------------------------------- ObserverBuilder
\* new_with_entity: the descriptor a builder for event type E starts with.
NewDescriptor(E) ==
  IF get_id(E) # NO_EVENT
    THEN [EmptyDescriptor EXCEPT !.events = <<get_id(E)>>]
    ELSE EmptyDescriptor

\* Bundle::get_component_ids with the pushing closure of `components` and
\* `run`: the identifiers are pushed one by one and the first unregistered
\* member panics, after the ones before it were pushed.
\* The closure with the unregistered members let through.
RECURSIVE PushIds_Lenient(_, _)
PushIds_Lenient(list, B) ==
  IF B = <<>> THEN [list |-> list, ok |-> TRUE]
  ELSE PushIds_Lenient(Append(list, get_id(Head(B))), Tail(B))

RECURSIVE PushIds(_, _)
PushIds(list, B) ==
  IF B = <<>> THEN [list |-> list, ok |-> TRUE]
  ELSE IF get_id(Head(B)) = NoId THEN [list |-> list, ok |-> FALSE]
  ELSE PushIds(Append(list, get_id(Head(B))), Tail(B))

Programs == {"none", "despawn", "emit", "despawn_emit"}

\* ObserverBuilder::new: spawn_empty, then new_with_entity.
ObserverBuilder_new(E) ==
  /\ Idle
  /\ nextEntity <= MaxEntities
  /\ nextEntity' = nextEntity + 1
  /\ alive' = alive \cup {nextEntity}
  /\ IF get_id(E) = NoId
       THEN /\ Panic("new_unregistered_event") /\ ob' = ob
            /\ finals' = [finals EXCEPT ![nextEntity] = FailedNew]
       ELSE /\ ob' = [present |-> TRUE, entity |-> nextEntity,
                      descriptor |-> NewDescriptor(E), finalized |-> FALSE]
            /\ UNCHANGED <<halted, faults, finals>>
  /\ UNCHANGED <<records, index, counter, queue, flushing, stack, eb, emitted,
                 removed, hist>>

\* ObserverBuilder::on_event::<NewE>()
ObserverBuilder_on_event(NewE) ==
  /\ Idle /\ ob.present
  /\ Len(ob.descriptor.events) < MaxDescLen
  /\ IF get_id(NewE) = NoId
       THEN /\ Panic("on_event_unregistered_event") /\ ob' = ob
            /\ finals' = [finals EXCEPT ![ob.entity] = Failed(ob.descriptor)]
       ELSE /\ ob' = [ob EXCEPT !.descriptor.events = Append(@, get_id(NewE))]
            /\ UNCHANGED <<halted, faults, finals>>
  /\ UNCHANGED <<store, queue, flushing, stack, eb, emitted, removed, hist>>

\* ObserverBuilder::components::<B>()
ObserverBuilder_components(B) ==
  /\ Idle /\ ob.present
  /\ Len(PushIds(ob.descriptor.components, B).list) <= MaxDescLen
  /\ LET r == PushIds(ob.descriptor.components, B) IN
       /\ ob' = [ob EXCEPT !.descriptor.components = r.list]
       /\ IF r.ok
            THEN UNCHANGED <<halted, faults, finals>>
            ELSE /\ Panic("components_unregistered")
                 /\ finals' = [finals EXCEPT ![ob.entity] = Failed(ob.descriptor)]
  /\ UNCHANGED <<store, queue, flushing, stack, eb, emitted, removed, hist>>

\* ObserverBuilder::source(source)
ObserverBuilder_source(source) ==
  /\ Idle /\ ob.present
  /\ Len(ob.descriptor.sources) < MaxDescLen
  /\ ob' = [ob EXCEPT !.descriptor.sources = Append(@, source)]
  /\ UNCHANGED <<store, queue, flushing, stack, eb, halted, faults, ghosts>>

\* The command `run` enqueues: it owns the clone of the descriptor and the
\* callback.
AttachCommand(entity, descriptor, excl, prog) ==
  [op |-> "attach", entity |-> entity, descriptor |-> descriptor,
   excl |-> excl, prog |-> prog]

\* The clone taken before the callback's bundle is resolved.
RunClone_Early(before, after) == before

\* The descriptor `run` clones: the builder's, after the callback's bundle
\* has been resolved into it.
RunClone(before, after) == after

\* ObserverBuilder::run::<B, M>(callback)
ObserverBuilder_run(B, excl, prog) ==
  /\ Idle /\ ob.present /\ ~ob.finalized
  /\ Len(PushIds(ob.descriptor.components, B).list) <= MaxDescLen
  /\ LET r == PushIds(ob.descriptor.components, B)
         d == [ob.descriptor EXCEPT !.components = r.list] IN
       IF r.ok
         THEN /\ ob' = [ob EXCEPT !.descriptor = d, !.finalized = TRUE]
              /\ queue' = Append(queue,
                     AttachCommand(ob.entity, RunClone(ob.descriptor, d), excl, prog))
              /\ finals' = [finals EXCEPT ![ob.entity] =
                     [kind |-> "run", descriptor |-> d, excl |-> excl, prog |-> prog]]
              /\ UNCHANGED <<halted, faults>>
         ELSE /\ ob' = [ob EXCEPT !.descriptor = d]
              /\ Panic("run_unregistered")
              /\ finals' = [finals EXCEPT ![ob.entity] = Failed(ob.descriptor)]
              /\ UNCHANGED queue
  /\ UNCHANGED <<store, flushing, stack, eb, emitted, removed, hist>>

\* A record that loses the descriptor it was given.
FromRunner_NoDescriptor(descriptor) ==
  [present |-> TRUE, descriptor |-> EmptyDescriptor, runner |-> "raw",
   system |-> FALSE, last_event_id |-> 0, prog |-> "none"]

\* ObserverComponent::from_runner
FromRunner(descriptor) ==
  [present |-> TRUE, descriptor |-> descriptor, runner |-> "raw",
   system |-> FALSE, last_event_id |-> 0, prog |-> "none"]

\* What `runner` does with the component it built: Commands::entity(..).insert
\* is a command of the queue.
InsertCommand(entity, component) ==
  [op |-> "insert", entity |-> entity, component |-> component]

\* ObserverBuilder::runner(runner)
ObserverBuilder_runner ==
  /\ Idle /\ ob.present /\ ~ob.finalized
  /\ ob' = [ob EXCEPT !.finalized = TRUE]
  /\ queue' = Append(queue, InsertCommand(ob.entity, FromRunner(ob.descriptor)))
  /\ finals' = [finals EXCEPT ![ob.entity] =
         [kind |-> "runner", descriptor |-> ob.descriptor, excl |-> FALSE,
          prog |-> "none"]]
  /\ UNCHANGED <<store, flushing, stack, eb, halted, faults, emitted, removed, hist>>

\* Commands::entity(e).despawn() by the caller, on an observer's host.
DespawnCommand(e) == [op |-> "despawn", entity |-> e]
HasOp(q, op, e) == \E i \in 1..Len(q) : q[i].op = op /\ q[i].entity = e

Commands_despawn(e) ==
  /\ Idle
  /\ e \in alive /\ finals[e].kind # "none"
  /\ ~HasOp(queue, "despawn", e)
  /\ queue' = Append(queue, DespawnCommand(e))
  /\ UNCHANGED <<store, flushing, stack, ob, eb, halted, faults, ghosts>>

\* ---------------------------------------------------------- EventBuilder
Payload == 5

\* EventBuilder::new(data, commands)
EventBuilder_new(E) ==
  /\ Idle
  /\ emitted < MaxEmits
  /\ eb' = [present |-> TRUE, event |-> NoId, ty |-> E, targets |-> <<>>,
            components |-> <<>>, data |-> Payload, emits |-> 0]
  /\ UNCHANGED <<store, queue, flushing, stack, ob, halted, faults, ghosts>>

\* EventBuilder::entity(target)
EventBuilder_entity(target) ==
  /\ Idle /\ eb.present
  /\ Len(eb.targets) < MaxTargets
  /\ eb' = [eb EXCEPT !.targets = Append(@, target)]
  /\ UNCHANGED <<store, queue, flushing, stack, ob, halted, faults, ghosts>>

\* EventBuilder::event_id(id)
EventBuilder_event_id(id) ==
  /\ Idle /\ eb.present
  /\ eb.event # id
  /\ eb' = [eb EXCEPT !.event = id]
  /\ UNCHANGED <<store, queue, flushing, stack, ob, halted, faults, ghosts>>

\* EventBuilder::component(component_id)
EventBuilder_component(component_id) ==
  /\ Idle /\ eb.present
  /\ Len(eb.components) < MaxDescLen
  /\ eb' = [eb EXCEPT !.components = Append(@, component_id)]
  /\ UNCHANGED <<store, queue, flushing, stack, ob, halted, faults, ghosts>>

\* The command without the override of the event identifier.
EmitCommand_NoOverride(b, em) ==
  [op |-> "emit", em |-> em, event |-> NoId, ty |-> b.ty, data |-> b.data,
   entities |-> b.targets, components |-> b.components]

\* The EmitEcsEvent command `emit` builds from the builder's fields; `em`
\* numbers the emissions.
EmitCommand(b, em) ==
  [op |-> "emit", em |-> em, event |-> b.event, ty |-> b.ty, data |-> b.data,
   entities |-> b.targets, components |-> b.components]

\* The builder with its fields copied out instead of taken.
TakenBuilder_Kept(b) == b

\* The builder after std::mem::take of data, targets and components.
TakenBuilder(b) ==
  [b EXCEPT !.data = NoData, !.targets = <<>>, !.components = <<>>]

\* The history entry of an emission that has just been enqueued.
Enqueued(b) ==
  [NoHistory EXCEPT !.enqueued = TRUE, !.built = b, !.gone = removed,
                    !.known = {e \in Entities : finals[e].kind \in {"run", "runner"}}]

\* EventBuilder::emit()
EventBuilder_emit ==
  /\ Idle /\ eb.present
  /\ IF eb.data = NoData
       THEN /\ Panic("emit_without_payload")
            /\ eb' = [eb EXCEPT !.emits = @ + 1]
            /\ UNCHANGED <<queue, emitted, hist>>
       ELSE /\ emitted < MaxEmits
            /\ emitted' = emitted + 1
            /\ queue' = Append(queue, EmitCommand(eb, emitted + 1))
            /\ eb' = [TakenBuilder(eb) EXCEPT !.emits = @ + 1]
            /\ hist' = [hist EXCEPT ![emitted + 1] = Enqueued(eb)]
            /\ UNCHANGED <<halted, faults>>
  /\ UNCHANGED <<store, flushing, stack, ob, removed, finals>>

\* -------------------------------------------------------- command queue
\* World::flush_commands: the queue is applied front to back until it is
\* empty; the caller's code does not run meanwhile.
StartFlush ==
  /\ Idle /\ queue # <<>>
  /\ flushing' = TRUE
  /\ UNCHANGED <<store, queue, stack, ob, eb, halted, faults, ghosts>>

AtCommand(op) ==
  /\ halted = "no" /\ flushing /\ stack = <<>>
  /\ queue # <<>> /\ Head(queue).op = op

StillFlushing(q, st) == q # <<>> \/ st # <<>>

RegisterCommand(e)   == [op |-> "register", entity |-> e]
UnregisterCommand(e) == [op |-> "unregister", entity |-> e]

\* init_component_info: the on_add and on_remove hooks add a command to the
\* world's queue `q`.
OnAdd(q, e)    == Append(q, RegisterCommand(e))

\* An on_remove hook that enqueues nothing.
OnRemove_Forgets(q, e) == q

OnRemove(q, e) == Append(q, UnregisterCommand(e))

\* The assertion left out.
IsRejected_Never(excl) == FALSE

\* ObserverComponent::from: assert!(!system.is_exclusive(), ..) fails.
IsRejected(excl) == excl

\* A record that starts with the first value of the counter as seen.
FromSystem_Seen(descriptor, prog) ==
  [present |-> TRUE, descriptor |-> descriptor, runner |-> "default",
   system |-> TRUE, last_event_id |-> 1, prog |-> prog]

\* ObserverComponent::from: the record it returns.
FromSystem(descriptor, prog) ==
  [present |-> TRUE, descriptor |-> descriptor, runner |-> "default",
   system |-> TRUE, last_event_id |-> 0, prog |-> prog]

\* EntityWorldMut::insert of an ObserverComponent: on_add runs when the
\* entity did not carry one.
InsertRecord(e, component) ==
  /\ records' = [records EXCEPT ![e] = component]
  /\ queue' = IF records[e].present THEN Tail(queue) ELSE OnAdd(Tail(queue), e)
  /\ flushing' = TRUE

\* The closure `run` enqueued: ObserverComponent::from, then insert.
ApplyAttach ==
  /\ AtCommand("attach")
  /\ LET cmd == Head(queue) IN
       IF IsRejected(cmd.excl)
         THEN Panic("exclusive_system") /\ UNCHANGED <<records, queue, flushing>>
       ELSE IF cmd.entity \notin alive
         THEN Panic("attach_missing_entity") /\ UNCHANGED <<records, queue, flushing>>
       ELSE /\ InsertRecord(cmd.entity, FromSystem(cmd.descriptor, cmd.prog))
            /\ UNCHANGED <<halted, faults>>
  /\ UNCHANGED <<alive, nextEntity, index, counter, stack, ob, eb, ghosts>>

\* The insert command `runner` enqueued.
ApplyInsert ==
  /\ AtCommand("insert")
  /\ LET cmd == Head(queue) IN
       IF cmd.entity \notin alive
         THEN Panic("insert_missing_entity") /\ UNCHANGED <<records, queue, flushing>>
         ELSE /\ InsertRecord(cmd.entity, cmd.component)
              /\ UNCHANGED <<halted, faults>>
  /\ UNCHANGED <<alive, nextEntity, index, counter, stack, ob, eb, ghosts>>

\* World::despawn(e) with the world's queue being `q`: the record goes with
\* the entity and on_remove runs for it.
Despawn(e, q) ==
  /\ alive' = alive \ {e}
  /\ records' = [records EXCEPT ![e] = NoRecord]
  /\ queue' = IF records[e].present THEN OnRemove(q, e) ELSE q
  /\ removed' = IF records[e].present THEN removed \cup {e} ELSE removed

ApplyDespawn ==
  /\ AtCommand("despawn")
  /\ Despawn(Head(queue).entity, Tail(queue))
  /\ flushing' = StillFlushing(queue', stack)
  /\ UNCHANGED <<nextEntity, index, counter, stack, ob, eb, halted, faults,
                 emitted, finals, hist>>

\* World::register_observer(entity): the index learns the observer from the
\* record the entity carries.
ApplyRegister ==
  /\ AtCommand("register")
  /\ LET e == Head(queue).entity IN
       index' = IF records[e].present
                  THEN [index EXCEPT ![e] =
                          [present |-> TRUE, descriptor |-> records[e].descriptor,
                           runner |-> records[e].runner]]
                  ELSE index
  /\ queue' = Tail(queue)
  /\ flushing' = StillFlushing(queue', stack)
  /\ UNCHANGED <<alive, nextEntity, records, counter, stack, ob, eb, halted,
                 faults, ghosts>>

\* World::unregister_observer(entity)
ApplyUnregister ==
  /\ AtCommand("unregister")
  /\ index' = [index EXCEPT ![Head(queue).entity] = NoEntry]
  /\ queue' = Tail(queue)
  /\ flushing' = StillFlushing(queue', stack)
  /\ UNCHANGED <<alive, nextEntity, records, counter, stack, ob, eb, halted,
                 faults, ghosts>>

\* ---------------------------------------------------------------- dispatch
\* Does the observer described by `d` match the event `event` raised on
\* `source` with target components `components`?
Matches(d, event, source, components) ==
  /\ d.events = <<>> \/ event \in Range(d.events)
  /\ d.components = <<>> \/ Range(d.components) \cap Range(components) # {}
  /\ d.sources = <<>> \/ source \in Range(d.sources)

\* The triggers of one source: one per matching observer of the index.
RECURSIVE ObserversOf(_, _, _, _)
ObserversOf(o, event, source, components) ==
  IF o > MaxEntities THEN <<>>
  ELSE (IF index[o].present /\ Matches(index[o].descriptor, event, source, components)
          THEN << <<o, source>> >> ELSE <<>>)
       \o ObserversOf(o + 1, event, source, components)

RECURSIVE Triggers(_, _, _)
Triggers(event, sources, components) ==
  IF sources = <<>> THEN <<>>
  ELSE ObserversOf(1, event, Head(sources), components)
       \o Triggers(event, Tail(sources), components)

\* An emission without target entity is raised on the placeholder.
Sources(entities) == IF entities = <<>> THEN <<PLACEHOLDER>> ELSE entities

\* The event identifier of an emission: the override, else the payload type's.
ResolveEvent(cmd) == IF cmd.event # NoId THEN cmd.event ELSE get_id(cmd.ty)

Frame(cmd) ==
  [em |-> cmd.em, event |-> ResolveEvent(cmd),
   triggers |-> Triggers(ResolveEvent(cmd), Sources(cmd.entities), cmd.components),
   observer |-> PLACEHOLDER, source |-> PLACEHOLDER, phase |-> "next",
   buffer |-> <<>>]

\* The catch-all observers with a typed callback that the index holds.
CatchAll ==
  {o \in Entities : /\ index[o].present /\ index[o].runner = "default"
                    /\ index[o].descriptor = EmptyDescriptor
                    /\ records[o].present}

\* EmitEcsEvent::apply on top of the dispatches `st`: the global counter
\* advances once and the triggers of the emission are drawn up.
StartDispatch(cmd, st) ==
  /\ counter' = counter + 1
  /\ stack' = Append(st, Frame(cmd))
  /\ hist' = [m \in Emits |->
       IF m = cmd.em
         THEN [hist[m] EXCEPT
                 !.started = TRUE, !.counter = counter + 1, !.index = index, !.catchAll = CatchAll,
                 !.solo = (st = <<>>),
                 !.triggered = {t[1] : t \in Range(Frame(cmd).triggers)},
                 !.matched = {t[1] : t \in
                    {u \in Range(Frame(cmd).triggers) :
                       /\ u[2] # PLACEHOLDER /\ index[u[1]].runner = "default"
                       /\ records[u[1]].present}}]
       ELSE IF \E i \in 1..Len(st) : st[i].em = m
         THEN [hist[m] EXCEPT !.solo = FALSE]
       ELSE hist[m]]

ApplyEmit ==
  /\ AtCommand("emit")
  /\ StartDispatch(Head(queue), stack)
  /\ queue' = Tail(queue)
  /\ UNCHANGED <<alive, nextEntity, records, index, flushing, ob, eb, halted,
                 faults, emitted, removed, finals>>

Top == stack[Len(stack)]
SetTop(f) == [stack EXCEPT ![Len(stack)] = f]
InDispatch(phase) == halted = "no" /\ stack # <<>> /\ Top.phase = phase

\* ------------------------------------------------------ the default runner
\* The guard left out.
IsPlaceholderSource_Never(source) == FALSE

\* if trigger.source == Entity::PLACEHOLDER { return; }
IsPlaceholderSource(source) == source = PLACEHOLDER

\* The dedup check left out.
DedupSkip_Never(state, last_event) == FALSE

\* if state.last_event_id == last_event { return; }
DedupSkip(state, last_event) == state.last_event_id = last_event

\* The assignment left out.
StoreEventId_Forgets(state, last_event) == state

\* state.last_event_id = last_event;
StoreEventId(state, last_event) == [state EXCEPT !.last_event_id = last_event]

\* state.system.take()
TakeSystem(state) == [state EXCEPT !.system = FALSE]

\* state.system = Some(..)
PutBack(state) == [state EXCEPT !.system = TRUE]

\* debug_checked_unwrap of None: a panic in a debug build, undefined
\* behaviour otherwise.
UncheckedUnwrapOfNone(site) ==
  /\ faults' = faults \cup {site}
  /\ \E h \in {"panic", "ub"} : halted' = h

Note(em, o, field, value) ==
  [hist EXCEPT ![em][field][o] = Append(@, value), ![em].invoked = @ \cup {o}]

\* A trigger reaches an observer registered with a caller-supplied runner.
RawRunner ==
  /\ InDispatch("next") /\ Top.triggers # <<>>
  /\ index[Head(Top.triggers)[1]].runner = "raw"
  /\ stack' = SetTop([Top EXCEPT !.triggers = Tail(@)])
  /\ hist' = [hist EXCEPT ![Top.em].invoked = @ \cup {Head(Top.triggers)[1]}]
  /\ UNCHANGED <<store, queue, flushing, ob, eb, halted, faults, emitted, removed,
                 finals>>

\* The default runner up to the point where it calls the system: the
\* placeholder guard, the lookup of the record, the dedup check and the take.
RunnerEnter ==
  /\ InDispatch("next") /\ Top.triggers # <<>>
  /\ LET o    == Head(Top.triggers)[1]
         src  == Head(Top.triggers)[2]
         rest == [Top EXCEPT !.triggers = Tail(@)]
         em   == Top.em
     IN
     /\ index[o].runner = "default"
     /\ IF IsPlaceholderSource(src)
          THEN /\ stack' = SetTop(rest)
               /\ hist' = [hist EXCEPT ![em].invoked = @ \cup {o}]
               /\ UNCHANGED <<records, halted, faults>>
        ELSE IF ~records[o].present
          THEN /\ UncheckedUnwrapOfNone("missing_record")
               /\ hist' = [hist EXCEPT ![em].stale = @ \cup {o},
                                       ![em].invoked = @ \cup {o}]
               /\ UNCHANGED <<records, stack>>
        ELSE IF DedupSkip(records[o], counter)
          THEN /\ stack' = SetTop(rest)
               /\ hist' = [Note(em, o, "calls", counter) EXCEPT
                                ![em].skips[o] = @ + 1]
               /\ UNCHANGED <<records, halted, faults>>
        ELSE IF ~records[o].system
          THEN /\ records' = [records EXCEPT ![o] = StoreEventId(@, counter)]
               /\ UncheckedUnwrapOfNone("system_absent")
               /\ hist' = Note(em, o, "calls", counter)
               /\ UNCHANGED stack
        ELSE /\ records' = [records EXCEPT ![o] = TakeSystem(StoreEventId(@, counter))]
             /\ stack' = SetTop([rest EXCEPT !.observer = o, !.source = src,
                                            !.phase = "running"])
             /\ hist' = Note(em, o, "calls", counter)
             /\ UNCHANGED <<halted, faults>>
  /\ UNCHANGED <<alive, nextEntity, index, counter, queue, flushing, ob, eb,
                 emitted, removed, finals>>

\* What the observer's system queues through its own Commands while it runs.
\* A system that emits raises Heal on entity 1.
SystemEmission ==
  [present |-> TRUE, event |-> NoId, ty |-> "Heal", targets |-> <<1>>,
   components |-> <<>>, data |-> Payload, emits |-> 0]

\* "despawn_next" is a system that despawns the entity after its own host.
Program(prog, o, em) ==
  (IF prog \in {"despawn", "despawn_emit"} THEN <<DespawnCommand(o)>> ELSE <<>>)
  \o (IF prog = "despawn_next" /\ o + 1 \in Entities
        THEN <<DespawnCommand(o + 1)>> ELSE <<>>)
  \o (IF prog \in {"emit", "despawn_emit"} /\ em <= MaxEmits
        THEN <<EmitCommand(SystemEmission, em)>> ELSE <<>>)

Emitting(prog) == prog \in {"emit", "despawn_emit"} /\ emitted < MaxEmits

\* system.run_unsafe(observer, world)
CallbackRun ==
  /\ InDispatch("running")
  /\ LET o    == Top.observer
         prog == records[o].prog
         buf  == Program(prog, o, emitted + 1)
     IN
     /\ stack' = SetTop([Top EXCEPT !.phase = "flush", !.buffer = buf])
     /\ emitted' = IF Emitting(prog) THEN emitted + 1 ELSE emitted
     /\ hist' = IF Emitting(prog)
                  THEN [Note(Top.em, o, "runs", counter) EXCEPT ![emitted + 1] =
                          Enqueued(SystemEmission)]
                  ELSE Note(Top.em, o, "runs", counter)
  /\ UNCHANGED <<store, queue, flushing, ob, eb, halted, faults, removed, finals>>

\* system.queue_deferred(world): the commands of the system are applied, in
\* the order it queued them; here a despawn.
FlushDespawn ==
  /\ InDispatch("flush") /\ Top.buffer # <<>>
  /\ Head(Top.buffer).op = "despawn"
  /\ Despawn(Head(Top.buffer).entity, queue)
  /\ stack' = SetTop([Top EXCEPT !.buffer = Tail(@)])
  /\ hist' = IF records[Head(Top.buffer).entity].present
               THEN [hist EXCEPT ![Top.em].dropped = @ \cup {Head(Top.buffer).entity}]
               ELSE hist
  /\ UNCHANGED <<nextEntity, index, counter, flushing, ob, eb, halted, faults,
                 emitted, finals>>

\* system.queue_deferred(world), here an emission: its dispatch runs inside
\* the one in progress.
FlushEmit ==
  /\ InDispatch("flush") /\ Top.buffer # <<>>
  /\ Head(Top.buffer).op = "emit"
  /\ StartDispatch(Head(Top.buffer), SetTop([Top EXCEPT !.buffer = Tail(@)]))
  /\ UNCHANGED <<alive, nextEntity, records, index, queue, flushing, ob, eb,
                 halted, faults, emitted, removed, finals>>

\* The runner after queue_deferred: state.system = Some(..), through the
\* reference `state` taken before the system ran. When the record is gone
\* the write goes through a dangling reference.
RunnerExit ==
  /\ InDispatch("flush") /\ Top.buffer = <<>>
  /\ LET o == Top.observer IN
       IF records[o].present
         THEN /\ records' = [records EXCEPT ![o] = PutBack(@)]
              /\ UNCHANGED <<halted, faults>>
         ELSE /\ faults' = faults \cup {"put_back_after_free"}
              /\ \E h \in {"no", "ub"} : halted' = h
              /\ UNCHANGED records
  /\ stack' = SetTop([Top EXCEPT !.observer = PLACEHOLDER,
                                 !.source = PLACEHOLDER, !.phase = "next"])
  /\ UNCHANGED <<alive, nextEntity, index, counter, queue, flushing, ob, eb, ghosts>>

\* Every trigger of the emission has been delivered.
DispatchEnd ==
  /\ InDispatch("next") /\ Top.triggers = <<>>
  /\ stack' = SubSeq(stack, 1, Len(stack) - 1)
  /\ hist' = [hist EXCEPT ![Top.em].done = TRUE]
  /\ flushing' = StillFlushing(queue, stack')
  /\ UNCHANGED <<store, queue, ob, eb, halted, faults, emitted, removed, finals>>

\* ------------------------------------------------------------------- next
\* The store's side: applying the queue and delivering triggers.
Applying ==
  \/ StartFlush
  \/ ApplyAttach \/ ApplyRegister \/ ApplyEmit
  \/ RunnerEnter \/ CallbackRun \/ RunnerExit \/ DispatchEnd

\* The caller builds one thing at a time, names each target once, and names
\* entity 2 only after entity 1 (the two are interchangeable as targets).
FreshTarget(t) ==
  /\ t \notin Range(eb.targets)
  /\ t = 2 => 1 \in Range(eb.targets)

\* Observers with typed callbacks that may emit, set up before the first
\* emission is built, and emissions of every shape.
Next ==
  \/ \E E \in {"NoEvent", "Damage"} : ~eb.present /\ ObserverBuilder_new(E)
  \/ ObserverBusy /\ ObserverBuilder_on_event("Heal")
  \/ \E prog \in {"none", "emit"} : ObserverBuilder_run(<<>>, FALSE, prog)
  \/ ~ObserverBusy /\ EventBuilder_new("Damage")
  \/ \E t \in {PLACEHOLDER, 1, 2} :
        EventBusy /\ FreshTarget(t) /\ EventBuilder_entity(t)
  \/ EventBusy /\ eb.targets = <<>> /\ EventBuilder_event_id(get_id("Heal"))
  \/ EventBusy /\ EventBuilder_emit
  \/ Applying
  \/ FlushEmit

Spec == Init /\ [][Next]_vars

\* Observers that come and go: callbacks that despawn their host, hosts the
\* caller despawns, emissions on entity 1 in between.
NextLifecycle ==
  \/ \E E \in {"NoEvent", "Damage"} : ~EventBusy /\ ObserverBuilder_new(E)
  \/ ObserverBusy /\ ObserverBuilder_on_event("Heal")
  \/ \E prog \in Programs : ObserverBuilder_run(<<>>, FALSE, prog)
  \/ \E e \in Entities : ~ObserverBusy /\ ~EventBusy /\ Commands_despawn(e)
  \/ ~ObserverBusy /\ EventBuilder_new("Damage")
  \/ EventBusy /\ FreshTarget(1) /\ EventBuilder_entity(1)
  \/ EventBusy /\ EventBuilder_emit
  \/ Applying
  \/ ApplyDespawn \/ ApplyUnregister \/ FlushDespawn \/ FlushEmit

LifecycleSpec == Init /\ [][NextLifecycle]_vars

\* One observer of every shape the builder can give it, finalized either
\* way, and one emission of every shape; the callbacks queue nothing.
Callbacks ==
  {[B |-> <<>>, excl |-> FALSE], [B |-> <<>>, excl |-> TRUE],
   [B |-> <<"Health">>, excl |-> FALSE], [B |-> <<"Health", "Ghost">>, excl |-> FALSE]}

NextBuilders ==
  \/ \E E \in {"NoEvent", "Damage", "Ghost"} :
        nextEntity = 2 /\ ~EventBusy /\ ObserverBuilder_new(E)
  \/ \E E \in {"Heal", "Ghost"} : ObserverBusy /\ ObserverBuilder_on_event(E)
  \/ \E B \in {<<"Health">>, <<"Ghost">>, <<"Health", "Ghost">>} :
        ObserverBusy /\ ObserverBuilder_components(B)
  \/ ~EventBusy /\ ObserverBuilder_source(1)
  \/ \E c \in Callbacks : ObserverBuilder_run(c.B, c.excl, "none")
  \/ ObserverBuilder_runner
  \/ emitted = 0 /\ ~ObserverBusy /\ EventBuilder_new("Damage")
  \/ \E t \in {PLACEHOLDER, 1, 2} :
        EventBusy /\ FreshTarget(t) /\ EventBuilder_entity(t)
  \/ EventBusy /\ eb.targets = <<>> /\ EventBuilder_event_id(get_id("Heal"))
  \/ EventBusy /\ EventBuilder_component(get_id("Health"))
  \/ EventBuilder_emit
  \/ Applying
  \/ ApplyInsert \/ RawRunner

BuilderSpec == Init /\ [][NextBuilders]_vars

\* Observers whose callback despawns the host of the observer registered
\* after them, and emissions on one or two entities.
NextOrder ==
  \/ \E E \in {"NoEvent", "Damage"} : ~eb.present /\ ObserverBuilder_new(E)
  \/ \E prog \in {"none", "despawn_next"} : ObserverBuilder_run(<<>>, FALSE, prog)
  \/ ~ObserverBusy /\ EventBuilder_new("Damage")
  \/ \E t \in {1, 2} : EventBusy /\ FreshTarget(t) /\ EventBuilder_entity(t)
  \/ EventBusy /\ EventBuilder_emit
  \/ Applying
  \/ ApplyUnregister \/ FlushDespawn

OrderSpec == Init /\ [][NextOrder]_vars

\* ----------------------------------------------------------------- claims
Count(seq, v) == Cardinality({i \in 1..Len(seq) : seq[i] = v})

\* C1: when the default runner is called more than once for an observer in
\* one emission with the same value of the global event counter, the one of
\* that emission (the observer matches through several targets), the
\* callback runs exactly once: the first call runs it and leaves the counter
\* in last_event_id, the later ones are skipped.
C1_OncePerEmission ==
  \A m \in Emits, o \in Entities :
    LET c     == hist[m].counter
        calls == Count(hist[m].calls[o], c)
        runs  == Count(hist[m].runs[o], c)
    IN /\ runs <= 1
       /\ calls >= 2 => runs = 1
       /\ (calls >= 1 /\ c = counter /\ records[o].present)
            => records[o].last_event_id = c

C1_Witness ==
  \E m \in Emits, o \in Entities :
    /\ hist[m].done
    /\ Cardinality(Range(hist[m].built.targets) \ {PLACEHOLDER}) = 2
    /\ Len(hist[m].calls[o]) = 2 /\ Len(hist[m].runs[o]) = 1
    /\ hist[m].skips[o] = 1

\* C2: the dedup check never suppresses a later emission: of emissions
\* dispatched one after the other, each one that matches an observer (with
\* a real source) runs its callback once, the first one a fresh record sees
\* included.
C2_EveryEmissionRuns ==
  \A m \in Emits :
    (hist[m].done /\ hist[m].solo) =>
      \A o \in hist[m].matched : Len(hist[m].runs[o]) = 1

C2_Witness ==
  \E o \in Entities :
    \A m \in Emits :
      /\ hist[m].done /\ hist[m].solo /\ o \in hist[m].matched
      /\ Len(hist[m].runs[o]) = 1

\* C3: a catch-all observer runs its callback exactly once for every
\* emission, whatever its event, target entities (none included) and
\* target components. Stated of the emissions dispatched on their own.
C3_CatchAllAlwaysRuns ==
  \A m \in Emits :
    (hist[m].done /\ hist[m].solo) =>
      \A o \in hist[m].catchAll : Len(hist[m].runs[o]) = 1

\* C4: an emission enqueued after the removal of an observer's record (or
\* the despawn of its host) does not call the observer's runner.
C4_NoRunnerAfterRemoval ==
  \A m \in Emits : hist[m].invoked \cap hist[m].gone = {}

\* C5: the runner puts the system back only into a record that still
\* exists: when the commands of the callback have been applied, the host of
\* the running observer still carries its record.
C5_PutBackIntoLiveRecord ==
  (InDispatch("flush") /\ Top.buffer = <<>>) => records[Top.observer].present

EmitsInQueue(m) ==
  {i \in 1..Len(queue) : queue[i].op = "emit" /\ queue[i].em = m}

C7_OverrideRoutes ==
  \A m \in Emits :
    LET b  == hist[m].built
        id == IF b.event # NoId THEN b.event ELSE get_id(b.ty)
    IN hist[m].enqueued =>
         /\ Cardinality(EmitsInQueue(m)) = (IF hist[m].started THEN 0 ELSE 1)
         /\ \A i \in EmitsInQueue(m) : queue[i].event = b.event
         /\ hist[m].started =>
              hist[m].triggered =
                {o \in Entities :
                   /\ hist[m].index[o].present
                   /\ \E src \in Range(Sources(b.targets)) :
                        Matches(hist[m].index[o].descriptor, id, src, b.components)}

C7_Witness ==
  \E m \in Emits, o \in Entities :
    /\ hist[m].done
    /\ hist[m].built.ty = "Damage" /\ hist[m].built.event = get_id("Heal")
    /\ hist[m].index[o].descriptor.events = <<get_id("Heal")>>
    /\ o \in hist[m].triggered

\* C8: `run` only enqueues the construction and attachment of the record:
\* while its command is pending the host carries no record and the command
\* holds the descriptor as it was when `run` returned; the record attached
\* later has that descriptor, whatever the builder was told afterwards.
C8_RunDefers ==
  \A e \in Entities :
    finals[e].kind = "run" =>
      /\ e \in alive
      /\ \A i \in 1..Len(queue) :
           (queue[i].op = "attach" /\ queue[i].entity = e) =>
             /\ ~records[e].present
             /\ queue[i].descriptor = finals[e].descriptor
      /\ records[e].present => records[e].descriptor = finals[e].descriptor

C8_Witness ==
  \E e \in Entities :
    /\ finals[e].kind = "run" /\ records[e].present
    /\ ob.entity = e /\ ob.descriptor # records[e].descriptor

\* C9 as stated: when `runner` has returned, the host carries the record.
C9_RunnerAttachesImmediately ==
  \A e \in Entities : finals[e].kind = "runner" => records[e].present

\* C9 amended: `runner` builds the record at once and enqueues its
\* attachment: while the insert command is pending the host carries no
\* record and the command holds the record built from the builder's
\* descriptor; once the command has been applied the host carries it.
C9_RunnerDefers ==
  \A e \in Entities :
    finals[e].kind = "runner" =>
      IF HasOp(queue, "insert", e)
        THEN /\ ~records[e].present
             /\ \A i \in 1..Len(queue) :
                  (queue[i].op = "insert" /\ queue[i].entity = e) =>
                    /\ queue[i].component.descriptor = finals[e].descriptor
                    /\ queue[i].component.runner = "raw"
                    /\ ~queue[i].component.system
        ELSE /\ records[e].present
             /\ records[e].descriptor = finals[e].descriptor
             /\ records[e].runner = "raw"

C9_Witness ==
  \E e \in Entities :
    /\ finals[e].kind = "runner" /\ finals[e].descriptor # EmptyDescriptor
    /\ ~flushing /\ HasOp(queue, "insert", e) /\ ~records[e].present

\* C10: an `emit` on a builder that holds a payload appends one command to
\* the queue, with the builder's payload, targets and components in their
\* order, and leaves the builder without payload, targets and components;
\* an `emit` on a builder without payload fails and leaves the queue alone.
C10_EmitMovesOut ==
  [][(eb.present /\ eb'.emits = eb.emits + 1) =>
       IF eb.data # NoData
         THEN /\ Len(queue') = Len(queue) + 1
              /\ SubSeq(queue', 1, Len(queue)) = queue
              /\ queue'[Len(queue')].op = "emit"
              /\ queue'[Len(queue')].data = eb.data
              /\ queue'[Len(queue')].entities = eb.targets
              /\ queue'[Len(queue')].components = eb.components
              /\ eb'.data = NoData /\ eb'.targets = <<>> /\ eb'.components = <<>>
              /\ halted' = "no"
         ELSE queue' = queue /\ halted' = "panic"]_vars

C10_Witness ==
  /\ eb.emits = 2 /\ "emit_without_payload" \in faults
  /\ hist[1].enqueued
  /\ Len(hist[1].built.targets) = 2 /\ hist[1].built.components # <<>>
  /\ Cardinality(EmitsInQueue(1)) = 1

\* The places where an unregistered type stops a builder call.
UnregisteredSites ==
  {"new_unregistered_event", "on_event_unregistered_event",
   "components_unregistered", "run_unregistered"}

IsPrefix(a, b) == Len(a) <= Len(b) /\ SubSeq(b, 1, Len(a)) = a

\* C11 as stated: a builder call that fails on an unregistered type leaves
\* the descriptor as it was, and no record is enqueued or attached.
C11_FailureAddsNothing ==
  \A e \in Entities :
    (finals[e].kind = "failed" /\ ob.entity = e) =>
      /\ ob.descriptor = finals[e].descriptor
      /\ ~HasOp(queue, "attach", e) /\ ~HasOp(queue, "insert", e)
      /\ ~records[e].present

\* C11 amended: the call stops the program at once; it adds no identifier
\* of an unregistered type, events and sources are as they were, and the
\* components are the earlier ones followed by the identifiers of the
\* bundle members that precede the first unregistered one; no record is
\* enqueued or attached. A failed `new` yields no builder at all.
C11_FailureAddsNoUnregistered ==
  /\ faults \cap UnregisteredSites # {} => halted = "panic"
  /\ ob.present =>
       NoId \notin Range(ob.descriptor.events) \cup Range(ob.descriptor.components)
  /\ "new_unregistered_event" \in faults => ~ob.present
  /\ \A e \in Entities :
       (finals[e].kind = "failed" /\ ob.entity = e) =>
         /\ faults \cap UnregisteredSites # {}
         /\ ob.descriptor.events = finals[e].descriptor.events
         /\ ob.descriptor.sources = finals[e].descriptor.sources
         /\ IsPrefix(finals[e].descriptor.components, ob.descriptor.components)
         /\ ~HasOp(queue, "attach", e) /\ ~HasOp(queue, "insert", e)
         /\ ~records[e].present

C11_Witness ==
  \E e \in Entities :
    /\ finals[e].kind = "failed" /\ ob.entity = e
    /\ "run_unregistered" \in faults
    /\ Len(ob.descriptor.components) = Len(finals[e].descriptor.components) + 1

\* The next trigger to be delivered goes to a default runner with the
\* placeholder as its source.
AtPlaceholderTrigger ==
  /\ InDispatch("next") /\ Top.triggers # <<>>
  /\ Head(Top.triggers)[2] = PLACEHOLDER
  /\ index[Head(Top.triggers)[1]].runner = "default"

\* C12: the default runner called with the placeholder as source does
\* nothing: no record changes (last_event_id and the callback slot
\* included), the callback does not run, nothing is queued, the counter
\* stays, and the dispatch goes on with the next trigger.
C12_PlaceholderIsNoOp ==
  [][AtPlaceholderTrigger =>
       /\ records' = records
       /\ queue' = queue /\ counter' = counter /\ emitted' = emitted
       /\ halted' = "no"
       /\ \A m \in Emits :
            /\ hist'[m].runs = hist[m].runs
            /\ hist'[m].calls = hist[m].calls
       /\ stack' = SetTop([Top EXCEPT !.triggers = Tail(@)])]_vars

\* An emission raised on the placeholder and on entity 1: the observer is
\* called for both, the first call is the no-op, the second runs it.
C12_Witness ==
  \E m \in Emits, o \in Entities :
    /\ hist[m].done
    /\ hist[m].built.targets = <<PLACEHOLDER, 1>>
    /\ o \in hist[m].invoked
    /\ hist[m].calls[o] = <<hist[m].counter>>
    /\ hist[m].runs[o] = <<hist[m].counter>>

\* The observers whose callback is executing: called and not yet returned.
Executing ==
  {stack[i].observer : i \in {j \in 1..Len(stack) : stack[j].phase # "next"}}

\* The next trigger is one the default runner does not skip: its source is
\* real, the record is there and the dedup check lets it through.
AtTake(o) ==
  /\ InDispatch("next") /\ Top.triggers # <<>>
  /\ Head(Top.triggers)[1] = o
  /\ ~IsPlaceholderSource(Head(Top.triggers)[2])
  /\ index[o].runner = "default"
  /\ records[o].present
  /\ ~DedupSkip(records[o], counter)

\* C13: the callback slot of a record built from a typed callback is
\* empty only while that observer's callback is executing, and the take
\* step always finds the callback present.
C13_TakeFindsCallback ==
  \A o \in Entities :
    /\ (records[o].present /\ records[o].runner = "default" /\ ~records[o].system)
         => o \in Executing
    /\ AtTake(o) => records[o].system

\* The record the runner's `state` refers to in the dispatch `f`: `state` is
\* obtained by the lookup and last used by the put-back, so it is live from
\* the one to the other; outside, the runner holds no record.
HeldState(f) == IF f.phase = "next" THEN PLACEHOLDER ELSE f.observer

\* C14: while a callback executes, the dispatch path holds no reference to
\* a record: the one obtained by the lookup has been released.
C14_ReleasedBeforeCallback ==
  \A i \in 1..Len(stack) :
    stack[i].phase = "running" => HeldState(stack[i]) = PLACEHOLDER

\* C15: an observer whose record a callback's command removed is not called
\* by the rest of that emission.
C15_RemovedNotCalledAgain ==
  \A m \in Emits : hist[m].stale \cap hist[m].dropped = {}

\* C16: the index follows the records through the queue: a record the
\* index does not hold yet has its register command pending, an entry
\* whose record is gone has its unregister command pending, so with the
\* queue empty the index holds exactly the entities that carry a record.
C16_IndexFollowsRecords ==
  /\ \A e \in Entities :
       /\ (records[e].present /\ ~index[e].present) => HasOp(queue, "register", e)
       /\ (index[e].present /\ ~records[e].present) => HasOp(queue, "unregister", e)
  /\ queue = <<>> =>
       {e \in Entities : index[e].present} = {e \in Entities : records[e].present}

\* Everything has been applied: one observer came and went, another is
\* still there, and an emission was dispatched in between.
C16_Witness ==
  /\ Idle /\ queue = <<>>
  /\ \E e \in removed : ~index[e].present /\ ~records[e].present
  /\ \E e \in Entities : index[e].present /\ records[e].present
  /\ \E m \in Emits : hist[m].done

\* C17: a record's last_event_id starts at 0, never decreases, never
\* exceeds the global counter, and changes only when the default runner
\* lets a trigger through, to the counter's value; no step changes the
\* descriptor or the runner of a record, and the callback slot changes
\* only by the runner's take and put-back.
C17_LastEventIdMonotone ==
  [][\A o \in Entities :
       /\ records'[o].last_event_id <= counter'
       /\ (~records[o].present /\ records'[o].present)
            => records'[o].last_event_id = 0
       /\ (records[o].present /\ records'[o].present) =>
            /\ records'[o].last_event_id >= records[o].last_event_id
            /\ records'[o].descriptor = records[o].descriptor
            /\ records'[o].runner = records[o].runner
            /\ records'[o].last_event_id # records[o].last_event_id => AtTake(o)
            /\ AtTake(o) => records'[o].last_event_id = counter
            /\ records'[o].system # records[o].system =>
                 \/ AtTake(o) /\ ~records'[o].system
                 \/ InDispatch("flush") /\ Top.observer = o /\ records'[o].system]_vars

C17_Witness ==
  \E o \in Entities :
    /\ records[o].present /\ records[o].system
    /\ records[o].last_event_id = 2 /\ counter = 2
    /\ hist[1].runs[o] = <<1>> /\ hist[2].runs[o] = <<2>>

\* C18: whatever other emissions are dispatched in between, no observer's
\* callback runs more than once for one emission.
C18_OncePerEmissionWhenNested ==
  \A m \in Emits, o \in Entities : Len(hist[m].runs[o]) <= 1

\* C19: an observer finalized with `run` (a callback that is not exclusive)
\* or `runner` before a matching emission was enqueued on the same queue has
\* its runner called when that emission is dispatched.
C19_RegisteredBeforeLaterEmission ==
  \A m \in Emits :
    LET b  == hist[m].built
        id == IF b.event # NoId THEN b.event ELSE get_id(b.ty)
    IN hist[m].done =>
         \A e \in hist[m].known :
           (/\ ~finals[e].excl
            /\ \E src \in Range(Sources(b.targets)) :
                 Matches(finals[e].descriptor, id, src, b.components))
             => e \in hist[m].invoked

\* C20: a `new` that fails on an unregistered event type has allocated no
\* host entity and queued nothing for it.
C20_FailedNewAllocatesNothing ==
  \A e \in Entities :
    finals[e].kind = "new_failed" =>
      /\ e \notin alive
      /\ \A i \in 1..Len(queue) : queue[i].op = "emit" \/ queue[i].entity # e

====
